---- MODULE Spec2Model ----
(***************************************************************************)
(* JiraBreakdownWorkflow (src/src/jira_breakdown_workflow.py) as a state   *)
(* machine.                                                                *)
(*                                                                         *)
(* The workflow is a set of @step handlers.  A handler is invoked once for *)
(* every event whose class is the class its `ev` parameter is annotated    *)
(* with; an event reaches a handler either because a handler returned it   *)
(* or because a handler passed it to ctx.send_event.  Handlers run as      *)
(* coroutines: a handler runs without interruption up to an await on an    *)
(* external collaborator (the MCP fetch, analyze_rfe of a persona, the MCP *)
(* write), and other handlers may run while it is suspended there.  An     *)
(* exception that leaves a handler ends the run.                           *)
(***************************************************************************)
EXTENDS Integers, Sequences, FiniteSets, TLC

(* Bounds of the model: the largest number of personas configured, the    *)
(* number of invocations of one step that may be under way at once, and    *)
(* the longest epic and story lists handed to _create_jira_items.          *)
MaxPersonas == 2
NumWorkers == 1
MaxItems == 3

(* Optional values: None is the empty sequence, Some(v) the singleton. *)
None == <<>>
Some(v) == <<v>>
IsSome(o) == o # <<>>
Val(o) == o[1]

RemoveAt(s, i) == [j \in 1..(Len(s) - 1) |-> IF j < i THEN s[j] ELSE s[j + 1]]

JiraIds == {"", "RHOAIENG-669"}

(* The dict carried by StartEvent.input: each key may be absent. *)
InputDatas ==
    {[jira_id |-> j, create_jira_items |-> c] : j \in JiraIds, c \in BOOLEAN}
        \cup {[jira_id |-> j] : j \in JiraIds}
        \cup {[create_jira_items |-> c] : c \in BOOLEAN}

NoInput == [started |-> FALSE]

(* ctx.get(key, default) on the Context store. *)
CtxGet(store, key, default) == IF IsSome(store[key]) THEN Val(store[key]) ELSE default

(* dict.get(key, default) *)
DictGet(d, key, default) == IF key \in DOMAIN d THEN d[key] ELSE default

Steps == {"fetch_jira_details", "analyze_with_agents", "synthesize_breakdown"}

(* The event class each step's `ev` parameter is annotated with. *)
Accepts(step) ==
    CASE step = "fetch_jira_details" -> "JiraBreakdownEvent"
      [] step = "analyze_with_agents" -> "JiraFetchProgressEvent"
      [] step = "synthesize_breakdown" -> "BreakdownProgressEvent"

(* Event constructors. *)
JiraBreakdownEvent(jira_id, create) ==
    [type |-> "JiraBreakdownEvent", jira_id |-> jira_id, create_jira_items |-> create]

JiraFetchProgressEvent(stage, progress, jira_id) ==
    [type |-> "JiraFetchProgressEvent", stage |-> stage, progress |-> progress,
     jira_id |-> jira_id]

BreakdownProgressEvent(stage, progress, completed, total) ==
    [type |-> "BreakdownProgressEvent", stage |-> stage, progress |-> progress,
     completed_agents |-> completed, total_agents |-> total]

(* Delivery of an event to every step that accepts its class. *)
Deliver(queues, ev) ==
    [s \in Steps |-> IF Accepts(s) = ev.type THEN Append(queues[s], ev) ELSE queues[s]]

Stages == {"fetch", "analysis", "synthesis", "write"}

VARIABLES
    input,          \* the StartEvent's input dict, NoInput until the run starts
    agent_personas, \* number of personas get_agent_personas() returns
    ctx,            \* the run's Context store: key -> None | Some(value)
    queues,         \* per step, the events delivered and not yet handled
    fetching,       \* fetch_jira_details invocations suspended in the MCP fetch
    analyzing,      \* analyze_with_agents invocations suspended in analyze_rfe
    synthesizing,   \* synthesize_breakdown invocations suspended in the MCP write
    emitted,        \* the run's event stream: progress, result and error events
    results,        \* the JiraBreakdownResponse values produced, in order
    error,          \* None, or Some(the exception that ended the run)
    started,        \* per stage, how many times its handler has been entered
    completed,      \* per stage, how many times it has run to completion
    analysisRuns,   \* per completed analysis: personas succeeded, failed, map stored
    now,            \* the clock (event loop time)
    received,       \* None, or Some(the clock when the request was received)
    wEpics, wStories, wCreated, \* arguments and outcome of a _create_jira_items call
    active,         \* which of two interleaved runs the run variables hold
    parked          \* the run state of the other run, None when one run is modelled

vars == <<input, agent_personas, ctx, queues, fetching, analyzing, synthesizing,
          emitted, results, error, started, completed, analysisRuns, now, received,
          wEpics, wStories, wCreated, active, parked>>

runVars == <<input, agent_personas, ctx, queues, fetching, analyzing, synthesizing,
             emitted, results, error, started, completed, analysisRuns, now,
             received>>

writeVars == <<wEpics, wStories, wCreated>>

twoRunVars == <<active, parked>>

(* The state of a run whose StartEvent has not been handled yet. *)
FreshRun ==
    [input |-> NoInput,
     ctx |-> [start_time |-> None, jira_details |-> None, original_event |-> None,
              agent_analyses |-> None],
     queues |-> [s \in Steps |-> <<>>],
     fetching |-> <<>>, analyzing |-> <<>>, synthesizing |-> <<>>,
     emitted |-> <<>>, results |-> <<>>, error |-> None,
     started |-> [s \in Stages |-> 0], completed |-> [s \in Stages |-> 0],
     analysisRuns |-> <<>>, received |-> None]

Progress(ev) == <<"progress", ev>>
(* A result event; its data is the k-th response of the run, results[k]. *)
Result(k) == <<"result", k>>
Error(e) == <<"error", e>>

(* A handler raises: the run ends with the exception as its terminal event. *)
Raise(e) ==
    /\ error' = Some(e)
    /\ emitted' = Append(emitted, Error(e))

Running == input # NoInput /\ error = None

Enter(stage) == [started EXCEPT ![stage] = @ + 1]
Complete(stage) == [completed EXCEPT ![stage] = @ + 1]

Init ==
    /\ input = NoInput
    /\ agent_personas \in 0..MaxPersonas
    /\ ctx = [start_time |-> None, jira_details |-> None, original_event |-> None,
              agent_analyses |-> None]
    /\ queues = [s \in Steps |-> <<>>]
    /\ fetching = <<>>
    /\ analyzing = <<>>
    /\ synthesizing = <<>>
    /\ emitted = <<>>
    /\ results = <<>>
    /\ error = None
    /\ started = [s \in Stages |-> 0]
    /\ completed = [s \in Stages |-> 0]
    /\ analysisRuns = <<>>
    /\ now = 0
    /\ received = None
    /\ wEpics = <<>>
    /\ wStories = <<>>
    /\ wCreated = None
    /\ active = 1
    /\ parked = None

(* Mutant of JiraIdMissing: the check `if not jira_id` is dropped. *)
JiraIdMissing_Dropped(jira_id) == FALSE

(* `not jira_id`: the identifier is missing or empty. *)
JiraIdMissing(jira_id) == jira_id = ""

(* start_jira_breakdown: parse the input, reject a missing identifier,     *)
(* return a JiraBreakdownEvent.                                            *)
start_jira_breakdown(input_data) ==
    /\ input = NoInput
    /\ error = None
    /\ input' = input_data
    /\ LET jira_id == DictGet(input_data, "jira_id", "")
           create == DictGet(input_data, "create_jira_items", FALSE)
       IN  IF JiraIdMissing(jira_id)
           THEN /\ Raise("ValueError: jira_id is required")
                /\ UNCHANGED queues
           ELSE /\ queues' = Deliver(queues, JiraBreakdownEvent(jira_id, create))
                /\ UNCHANGED <<error, emitted>>
    /\ UNCHANGED <<agent_personas, ctx, fetching, analyzing, synthesizing, results,
                   started, completed, analysisRuns>>
    /\ received' = Some(now)
    /\ UNCHANGED writeVars
    /\ UNCHANGED twoRunVars

(* _fetch_jira_via_mcp: the placeholder record; summary is                 *)
(* f"Feature from {jira_id}".                                              *)
_fetch_jira_via_mcp(jira_id) ==
    [id |-> jira_id, summary |-> <<"Feature from ", jira_id>>,
     description |-> "Placeholder JIRA description"]

(* fetch_jira_details up to its await on the MCP fetch: the progress event *)
(* with progress 10 is sent with ctx.send_event.                           *)
FetchStart ==
    /\ Running
    /\ queues["fetch_jira_details"] # <<>>
    /\ Len(fetching) < NumWorkers
    /\ LET ev == Head(queues["fetch_jira_details"])
           taken == [queues EXCEPT !["fetch_jira_details"] = Tail(@)]
           p == JiraFetchProgressEvent("fetching_jira", 10, ev.jira_id)
       IN  /\ queues' = Deliver(taken, p)
           /\ emitted' = Append(emitted, Progress(p))
           /\ fetching' = Append(fetching, [ev |-> ev])
    /\ started' = Enter("fetch")
    /\ UNCHANGED <<input, agent_personas, ctx, analyzing, synthesizing, results,
                   error, completed, analysisRuns>>
    /\ UNCHANGED received
    /\ UNCHANGED writeVars
    /\ UNCHANGED twoRunVars

(* fetch_jira_details after the MCP fetch returned: both context keys are  *)
(* stored and the progress event with progress 25 is returned.             *)
FetchDone(i) ==
    /\ Running
    /\ i \in 1..Len(fetching)
    /\ LET ev == fetching[i].ev
           p == JiraFetchProgressEvent("jira_fetched", 25, ev.jira_id)
       IN  /\ ctx' = [ctx EXCEPT !.jira_details = Some(_fetch_jira_via_mcp(ev.jira_id)),
                                 !.original_event = Some(ev)]
           /\ queues' = Deliver(queues, p)
           /\ emitted' = Append(emitted, Progress(p))
    /\ fetching' = RemoveAt(fetching, i)
    /\ completed' = Complete("fetch")
    /\ UNCHANGED <<input, agent_personas, analyzing, synthesizing, results, error,
                   started, analysisRuns>>
    /\ UNCHANGED received
    /\ UNCHANGED writeVars
    /\ UNCHANGED twoRunVars

(* The MCP fetch fails (the issue does not resolve, or the tracker cannot  *)
(* be reached): the exception leaves fetch_jira_details.                   *)
FetchFail(i) ==
    /\ Running
    /\ i \in 1..Len(fetching)
    /\ Raise("UpstreamError: fetch")
    /\ fetching' = RemoveAt(fetching, i)
    /\ UNCHANGED <<input, agent_personas, ctx, queues, analyzing, synthesizing,
                   results, started, completed, analysisRuns>>
    /\ UNCHANGED received
    /\ UNCHANGED writeVars
    /\ UNCHANGED twoRunVars

(* Mutant of AnalysisProgress: the quotient is taken with integer         *)
(* division, 30 + (completed // total_agents) * 40.                        *)
AnalysisProgress_IntegerDivision(done, total) == 30 + ((done \div total) * 40)

(* Progress after `done` of `total` personas succeeded:                   *)
(* 30 + int((completed / total_agents) * 40).                              *)
AnalysisProgress(done, total) == 30 + ((done * 40) \div total)

(* Mutant of AnalyzeStep: the analysis slot of a failed persona is        *)
(* recorded too.                                                           *)
AnalyzeStep_RecordsFailure(inv, ok) ==
    IF ok
    THEN [inv EXCEPT !.agent_analyses = @ \cup {inv.persona},
                     !.completed = @ + 1,
                     !.persona = @ + 1]
    ELSE [inv EXCEPT !.agent_analyses = @ \cup {inv.persona},
                     !.persona = @ + 1]

(* One iteration of the persona loop, given whether analyze_rfe returned   *)
(* (ok) or raised: on success the analysis is recorded under the persona   *)
(* and the count advances; on failure the loop continues.  agent_analyses  *)
(* is the dict's key set (the analyses themselves are opaque).             *)
AnalyzeStep(inv, ok) ==
    IF ok
    THEN [inv EXCEPT !.agent_analyses = @ \cup {inv.persona},
                     !.completed = @ + 1,
                     !.persona = @ + 1]
    ELSE [inv EXCEPT !.persona = @ + 1]

DeliverAll(qs, evs) ==
    IF Len(evs) = 0 THEN qs
    ELSE IF Len(evs) = 1 THEN Deliver(qs, evs[1])
    ELSE Deliver(Deliver(qs, evs[1]), evs[2])

AnalysisComplete(done, total) ==
    BreakdownProgressEvent("analysis_complete", 70, done, total)

(* analyze_with_agents up to its first await on analyze_rfe: both context  *)
(* keys are read (a missing key raises), the progress event with progress  *)
(* 30 is sent with ctx.send_event.  With no persona the loop body never    *)
(* runs and the handler stores the empty map and returns at once.          *)
AnalyzeStart ==
    /\ Running
    /\ queues["analyze_with_agents"] # <<>>
    /\ Len(analyzing) < NumWorkers
    /\ started' = Enter("analysis")
    /\ LET taken == [queues EXCEPT !["analyze_with_agents"] = Tail(@)]
           total_agents == agent_personas
           p30 == BreakdownProgressEvent("agent_analysis", 30, 0, total_agents)
           p70 == AnalysisComplete(0, total_agents)
       IN  IF ctx.jira_details = None
           THEN /\ Raise("ValueError: Key 'jira_details' not found in Context")
                /\ queues' = taken
                /\ UNCHANGED <<ctx, analyzing, completed, analysisRuns>>
           ELSE IF ctx.original_event = None
           THEN /\ Raise("ValueError: Key 'original_event' not found in Context")
                /\ queues' = taken
                /\ UNCHANGED <<ctx, analyzing, completed, analysisRuns>>
           ELSE IF total_agents = 0
           THEN /\ queues' = Deliver(Deliver(taken, p30), p70)
                /\ emitted' = emitted \o <<Progress(p30), Progress(p70)>>
                /\ ctx' = [ctx EXCEPT !.agent_analyses = Some({})]
                /\ completed' = Complete("analysis")
                /\ analysisRuns' = Append(analysisRuns,
                        [succeeded |-> {}, failed |-> {}, stored |-> {}])
                /\ UNCHANGED <<analyzing, error>>
           ELSE /\ queues' = Deliver(taken, p30)
                /\ emitted' = Append(emitted, Progress(p30))
                /\ analyzing' = Append(analyzing,
                        [persona |-> 1, agent_analyses |-> {}, completed |-> 0,
                         total_agents |-> total_agents,
                         succeeded |-> {}, failed |-> {}])
                /\ UNCHANGED <<ctx, completed, analysisRuns, error>>
    /\ UNCHANGED <<input, agent_personas, fetching, synthesizing, results>>
    /\ UNCHANGED received
    /\ UNCHANGED writeVars
    /\ UNCHANGED twoRunVars

(* analyze_with_agents resumed from analyze_rfe of the current persona,    *)
(* which returned (ok) or raised.  After the last persona the map is       *)
(* stored in the context and the progress event with progress 70 is        *)
(* returned.  succeeded and failed record the outcomes for the properties. *)
AnalyzePersona(i, ok) ==
    /\ Running
    /\ i \in 1..Len(analyzing)
    /\ LET inv == analyzing[i]
           stepped == AnalyzeStep(inv, ok)
           inv2 == [stepped EXCEPT
                       !.succeeded = IF ok THEN @ \cup {inv.persona} ELSE @,
                       !.failed = IF ok THEN @ ELSE @ \cup {inv.persona}]
           last == inv.persona = inv.total_agents
           update == IF ok
                     THEN <<BreakdownProgressEvent("agent_analysis",
                               AnalysisProgress(inv2.completed, inv2.total_agents),
                               inv2.completed, inv2.total_agents)>>
                     ELSE <<>>
           final == IF last
                    THEN <<AnalysisComplete(inv2.completed, inv2.total_agents)>>
                    ELSE <<>>
           evs == update \o final
       IN  /\ queues' = DeliverAll(queues, evs)
           /\ emitted' = emitted \o [k \in 1..Len(evs) |-> Progress(evs[k])]
           /\ IF last
              THEN /\ ctx' = [ctx EXCEPT !.agent_analyses = Some(inv2.agent_analyses)]
                   /\ analyzing' = RemoveAt(analyzing, i)
                   /\ completed' = Complete("analysis")
                   /\ analysisRuns' = Append(analysisRuns,
                          [succeeded |-> inv2.succeeded, failed |-> inv2.failed,
                           stored |-> inv2.agent_analyses])
              ELSE /\ analyzing' = [analyzing EXCEPT ![i] = inv2]
                   /\ UNCHANGED <<ctx, completed, analysisRuns>>
    /\ UNCHANGED <<input, agent_personas, fetching, synthesizing, results, error,
                   started>>
    /\ UNCHANGED received
    /\ UNCHANGED writeVars
    /\ UNCHANGED twoRunVars

(* JiraItem, with the fields the workflow reads or the result reports. *)
JiraItem(item_type, title, story_points, components, parent_epic) ==
    [item_type |-> item_type, title |-> title, story_points |-> story_points,
     components |-> components, parent_epic |-> parent_epic]

(* Mutant of _synthesize_epics_and_stories: no epic is produced when no    *)
(* persona contributed an analysis.                                        *)
_synthesize_NoEpicWithoutAnalyses(jira_details, agent_analyses) ==
    [epics |-> IF agent_analyses = {} THEN <<>>
               ELSE <<JiraItem("epic", "Core Feature Implementation", None,
                               {"backend", "frontend"}, None)>>,
     stories |-> <<JiraItem("story", "Backend API Development", Some(5),
                            {"backend"}, Some("Core Feature Implementation")),
                   JiraItem("story", "Frontend UI Implementation", Some(3),
                            {"frontend"}, Some("Core Feature Implementation"))>>]

(* Mutant of _synthesize_epics_and_stories: the second story names a       *)
(* parent epic that is not produced.                                       *)
_synthesize_DanglingParent(jira_details, agent_analyses) ==
    [epics |-> <<JiraItem("epic", "Core Feature Implementation", None,
                          {"backend", "frontend"}, None)>>,
     stories |-> <<JiraItem("story", "Backend API Development", Some(5),
                            {"backend"}, Some("Core Feature Implementation")),
                   JiraItem("story", "Frontend UI Implementation", Some(3),
                            {"frontend"}, Some("Core Feature"))>>]

(* _synthesize_epics_and_stories: the placeholder breakdown, which reads   *)
(* neither argument.                                                       *)
_synthesize_epics_and_stories(jira_details, agent_analyses) ==
    [epics |-> <<JiraItem("epic", "Core Feature Implementation", None,
                          {"backend", "frontend"}, None)>>,
     stories |-> <<JiraItem("story", "Backend API Development", Some(5),
                            {"backend"}, Some("Core Feature Implementation")),
                   JiraItem("story", "Frontend UI Implementation", Some(3),
                            {"frontend"}, Some("Core Feature Implementation"))>>]

(* f"RHOAIENG-{number}" *)
JiraKey(number) == [project |-> "RHOAIENG", number |-> number]

(* One `for item in items` loop of _create_jira_items: each item is        *)
(* created under the identifier RHOAIENG-(1000 + len(created_items)).      *)
(* `log` pairs every identifier of created_items with the item it was      *)
(* generated for.                                                          *)
RECURSIVE CreateLoop(_, _)
CreateLoop(items, log) ==
    IF items = <<>> THEN log
    ELSE CreateLoop(Tail(items),
                    Append(log, [id |-> JiraKey(1000 + Len(log)), item |-> Head(items)]))

(* Mutant of CreationLog: the stories loop runs before the epics loop. *)
CreationLog_StoriesFirst(epics, stories) == CreateLoop(epics, CreateLoop(stories, <<>>))

(* The two loops of _create_jira_items: epics, then stories. *)
CreationLog(epics, stories) == CreateLoop(stories, CreateLoop(epics, <<>>))

(* Mutant of _create_jira_items: the stories loop is missing. *)
_create_jira_items_EpicsOnly(epics, stories) ==
    LET log == CreateLoop(epics, <<>>)
    IN  [k \in 1..Len(log) |-> log[k].id]

(* _create_jira_items: the list created_items. *)
_create_jira_items(epics, stories) ==
    LET log == CreationLog(epics, stories)
    IN  [k \in 1..Len(log) |-> log[k].id]

RECURSIVE SumPoints(_)
SumPoints(stories) ==
    IF stories = <<>> THEN 0
    ELSE (IF IsSome(Head(stories).story_points) /\ Val(Head(stories).story_points) # 0
          THEN Val(Head(stories).story_points) ELSE 0) + SumPoints(Tail(stories))

(* _generate_breakdown_summary: the numbers and the component set the text *)
(* is formatted from.                                                      *)
_generate_breakdown_summary(epics, stories) ==
    [epics |-> Len(epics), stories |-> Len(stories),
     total_story_points |-> SumPoints(stories),
     components |-> UNION {(epics \o stories)[k].components :
                              k \in 1..(Len(epics) + Len(stories))}]

(* The JiraBreakdownResponse synthesize_breakdown returns; `time` is the   *)
(* clock when it is assembled: processing_time is that reading minus       *)
(* start_time, timestamp is that reading.                                  *)
JiraBreakdownResponse(loc, created_jira_items, time) ==
    [original_jira_id |-> loc.original_event.jira_id,
     original_summary |-> DictGet(loc.jira_details, "summary", ""),
     breakdown_summary |-> _generate_breakdown_summary(loc.epics, loc.stories),
     epics |-> loc.epics,
     stories |-> loc.stories,
     agent_analyses |-> loc.agent_analyses,
     created_jira_items |-> created_jira_items,
     processing_time |-> time - loc.start_time,
     timestamp |-> time]

(* synthesize_breakdown up to its await on _create_jira_items: the context *)
(* keys are read (a missing key raises; start_time has a default), the     *)
(* breakdown is synthesized, and with create_jira_items unset the response *)
(* is returned at once with created_jira_items None.                       *)
SynthStart ==
    /\ Running
    /\ queues["synthesize_breakdown"] # <<>>
    /\ Len(synthesizing) < NumWorkers
    /\ queues' = [queues EXCEPT !["synthesize_breakdown"] = Tail(@)]
    /\ IF ctx.jira_details = None
       THEN /\ Raise("ValueError: Key 'jira_details' not found in Context")
            /\ started' = Enter("synthesis")
            /\ UNCHANGED <<synthesizing, results, completed>>
       ELSE IF ctx.agent_analyses = None
       THEN /\ Raise("ValueError: Key 'agent_analyses' not found in Context")
            /\ started' = Enter("synthesis")
            /\ UNCHANGED <<synthesizing, results, completed>>
       ELSE IF ctx.original_event = None
       THEN /\ Raise("ValueError: Key 'original_event' not found in Context")
            /\ started' = Enter("synthesis")
            /\ UNCHANGED <<synthesizing, results, completed>>
       ELSE LET jira_details == Val(ctx.jira_details)
                agent_analyses == Val(ctx.agent_analyses)
                original_event == Val(ctx.original_event)
                es == _synthesize_epics_and_stories(jira_details, agent_analyses)
                start_time == CtxGet(ctx, "start_time", now)
                loc == [start_time |-> start_time,
                        jira_details |-> jira_details,
                        agent_analyses |-> agent_analyses,
                        original_event |-> original_event,
                        epics |-> es.epics, stories |-> es.stories]
                response == JiraBreakdownResponse(loc, None, now)
            IN  IF original_event.create_jira_items
                THEN /\ synthesizing' = Append(synthesizing, loc)
                     /\ started' = [started EXCEPT !["synthesis"] = @ + 1,
                                                   !["write"] = @ + 1]
                     /\ UNCHANGED <<results, emitted, error, completed>>
                ELSE /\ results' = Append(results, response)
                     /\ emitted' = Append(emitted, Result(Len(results) + 1))
                     /\ started' = Enter("synthesis")
                     /\ completed' = Complete("synthesis")
                     /\ UNCHANGED <<synthesizing, error>>
    /\ UNCHANGED <<input, agent_personas, ctx, fetching, analyzing, analysisRuns>>
    /\ UNCHANGED received
    /\ UNCHANGED writeVars
    /\ UNCHANGED twoRunVars

(* synthesize_breakdown resumed from _create_jira_items, which returned    *)
(* the created identifiers: the response is returned with them.            *)
WriteDone(i) ==
    /\ Running
    /\ i \in 1..Len(synthesizing)
    /\ LET loc == synthesizing[i]
           created_jira_items == _create_jira_items(loc.epics, loc.stories)
           response == JiraBreakdownResponse(loc, Some(created_jira_items), now)
       IN  /\ results' = Append(results, response)
           /\ emitted' = Append(emitted, Result(Len(results) + 1))
    /\ synthesizing' = RemoveAt(synthesizing, i)
    /\ completed' = [completed EXCEPT !["write"] = @ + 1, !["synthesis"] = @ + 1]
    /\ UNCHANGED <<input, agent_personas, ctx, queues, fetching, analyzing, error,
                   started, analysisRuns>>
    /\ UNCHANGED received
    /\ UNCHANGED writeVars
    /\ UNCHANGED twoRunVars

(* The MCP write fails: the exception leaves synthesize_breakdown. *)
WriteFail(i) ==
    /\ Running
    /\ i \in 1..Len(synthesizing)
    /\ Raise("UpstreamError: write")
    /\ synthesizing' = RemoveAt(synthesizing, i)
    /\ UNCHANGED <<input, agent_personas, ctx, queues, fetching, analyzing, results,
                   started, completed, analysisRuns>>
    /\ UNCHANGED received
    /\ UNCHANGED writeVars
    /\ UNCHANGED twoRunVars

(* The handler steps do not constrain the clock; the next-state relations *)
(* below do.                                                               *)

(* The workflow with time abstracted: the clock stands still. *)
Next ==
    \/ (\E d \in InputDatas : start_jira_breakdown(d)) /\ UNCHANGED now
    \/ FetchStart /\ UNCHANGED now
    \/ (\E i \in 1..NumWorkers : FetchDone(i)) /\ UNCHANGED now
    \/ (\E i \in 1..NumWorkers : FetchFail(i)) /\ UNCHANGED now
    \/ AnalyzeStart /\ UNCHANGED now
    \/ (\E i \in 1..NumWorkers, ok \in BOOLEAN : AnalyzePersona(i, ok)) /\ UNCHANGED now
    \/ SynthStart /\ UNCHANGED now
    \/ (\E i \in 1..NumWorkers : WriteDone(i)) /\ UNCHANGED now
    \/ (\E i \in 1..NumWorkers : WriteFail(i)) /\ UNCHANGED now

Spec == Init /\ [][Next]_vars

(* The workflow on a logical clock: every handler step takes one tick. *)
NextTimed ==
    \/ (\E d \in InputDatas : start_jira_breakdown(d)) /\ now' = now + 1
    \/ FetchStart /\ now' = now + 1
    \/ (\E i \in 1..NumWorkers : FetchDone(i)) /\ now' = now + 1
    \/ (\E i \in 1..NumWorkers : FetchFail(i)) /\ now' = now + 1
    \/ AnalyzeStart /\ now' = now + 1
    \/ (\E i \in 1..NumWorkers, ok \in BOOLEAN : AnalyzePersona(i, ok)) /\ now' = now + 1
    \/ SynthStart /\ now' = now + 1
    \/ (\E i \in 1..NumWorkers : WriteDone(i)) /\ now' = now + 1
    \/ (\E i \in 1..NumWorkers : WriteFail(i)) /\ now' = now + 1

SpecTimed == Init /\ [][NextTimed]_vars

(* ---- _create_jira_items on arbitrary lists of epics and stories ---- *)

SeqsUpTo(S, n) == UNION {[1..k -> S] : k \in 0..n}

EpicPool ==
    {JiraItem("epic", t, None, {"backend"}, None) : t \in {"Epic A", "Epic B"}}

StoryPool ==
    {JiraItem("story", "Story A", Some(5), {"backend"}, Some("Epic A")),
     JiraItem("story", "Story B", None, {"frontend"}, None)}

InitWrite ==
    /\ input = NoInput
    /\ agent_personas = 0
    /\ ctx = [start_time |-> None, jira_details |-> None, original_event |-> None,
              agent_analyses |-> None]
    /\ queues = [s \in Steps |-> <<>>]
    /\ fetching = <<>>
    /\ analyzing = <<>>
    /\ synthesizing = <<>>
    /\ emitted = <<>>
    /\ results = <<>>
    /\ error = None
    /\ started = [s \in Stages |-> 0]
    /\ completed = [s \in Stages |-> 0]
    /\ analysisRuns = <<>>
    /\ now = 0
    /\ received = None
    /\ wEpics \in SeqsUpTo(EpicPool, MaxItems)
    /\ wStories \in SeqsUpTo(StoryPool, MaxItems)
    /\ wCreated = None
    /\ active = 1
    /\ parked = None

CreateCall ==
    /\ wCreated = None
    /\ wCreated' = Some(_create_jira_items(wEpics, wStories))
    /\ UNCHANGED <<wEpics, wStories>>
    /\ UNCHANGED runVars
    /\ UNCHANGED twoRunVars

NextWrite == CreateCall

SpecWrite == InitWrite /\ [][NextWrite]_vars
(* ---- two runs of the one exported workflow instance, interleaved ---- *)

(* The requests of the two runs; neither asks for the items to be created. *)
RequestOf(run) ==
    IF run = 1 THEN [jira_id |-> "RHOAIENG-669"] ELSE [jira_id |-> "RHOAIENG-670"]

(* Mutant of HandlerContext: the values are kept on the workflow instance, *)
(* which the runs share.                                                   *)
HandlerContext_OnInstance(own, shared) == shared

(* The store the handlers of a run read and write: the Context passed to   *)
(* them as `ctx` (`own`, the run's), not the workflow instance (`shared`). *)
HandlerContext(own, shared) == own

InitTwo ==
    /\ input = NoInput
    /\ agent_personas = 1
    /\ ctx = [start_time |-> None, jira_details |-> None, original_event |-> None,
              agent_analyses |-> None]
    /\ queues = [s \in Steps |-> <<>>]
    /\ fetching = <<>>
    /\ analyzing = <<>>
    /\ synthesizing = <<>>
    /\ emitted = <<>>
    /\ results = <<>>
    /\ error = None
    /\ started = [s \in Stages |-> 0]
    /\ completed = [s \in Stages |-> 0]
    /\ analysisRuns = <<>>
    /\ now = 0
    /\ received = None
    /\ wEpics = <<>>
    /\ wStories = <<>>
    /\ wCreated = None
    /\ active = 1
    /\ parked = FreshRun

(* The event loop turns from the handlers of one run to those of the       *)
(* other: the run variables now hold the other run's state.                *)
Switch ==
    /\ active' = 3 - active
    /\ parked' = [input |-> input, ctx |-> ctx, queues |-> queues,
                  fetching |-> fetching, analyzing |-> analyzing,
                  synthesizing |-> synthesizing, emitted |-> emitted,
                  results |-> results, error |-> error, started |-> started,
                  completed |-> completed, analysisRuns |-> analysisRuns,
                  received |-> received]
    /\ input' = parked.input
    /\ ctx' = HandlerContext(parked.ctx, ctx)
    /\ queues' = parked.queues
    /\ fetching' = parked.fetching
    /\ analyzing' = parked.analyzing
    /\ synthesizing' = parked.synthesizing
    /\ emitted' = parked.emitted
    /\ results' = parked.results
    /\ error' = parked.error
    /\ started' = parked.started
    /\ completed' = parked.completed
    /\ analysisRuns' = parked.analysisRuns
    /\ received' = parked.received
    /\ UNCHANGED <<agent_personas, now>>
    /\ UNCHANGED writeVars

NextTwo ==
    \/ start_jira_breakdown(RequestOf(active)) /\ UNCHANGED now
    \/ FetchStart /\ UNCHANGED now
    \/ (\E i \in 1..NumWorkers : FetchDone(i)) /\ UNCHANGED now
    \/ (\E i \in 1..NumWorkers : FetchFail(i)) /\ UNCHANGED now
    \/ AnalyzeStart /\ UNCHANGED now
    \/ (\E i \in 1..NumWorkers, ok \in BOOLEAN : AnalyzePersona(i, ok)) /\ UNCHANGED now
    \/ SynthStart /\ UNCHANGED now
    \/ Switch

(* Without create_jira_items in a request synthesize_breakdown never awaits *)
(* _create_jira_items, so no step resumes from it.                         *)
SpecTwo == InitTwo /\ [][NextTwo]_vars

(* ------------------------------ properties ------------------------------ *)

IsProgress(e) == e[1] = "progress"
IsResult(e) == e[1] = "result"

(* The progress values of the event stream, in emission order. *)
ProgressValues ==
    LET ps == SelectSeq(emitted, IsProgress)
    IN  [k \in 1..Len(ps) |-> ps[k][2].progress]

(* The run has started and nothing is queued or in flight. *)
RunOver ==
    /\ input # NoInput
    /\ \A s \in Steps : queues[s] = <<>>
    /\ fetching = <<>> /\ analyzing = <<>> /\ synthesizing = <<>>

RequestInvalid ==
    input # NoInput /\ ("jira_id" \notin DOMAIN input \/ input.jira_id = "")

RequestedCreate ==
    "create_jira_items" \in DOMAIN input /\ input.create_jira_items

(* C1: the stages run in the order fetch, analysis, synthesis, write: a    *)
(* stage's handler is entered only when the preceding stage has run to     *)
(* completion and has no invocation still under way, and the write starts  *)
(* only inside a synthesis.                                                *)
C1_StagesInOrder ==
    [][ /\ started'["analysis"] > started["analysis"]
            => (completed["fetch"] >= 1 /\ completed["fetch"] = started["fetch"])
        /\ started'["synthesis"] > started["synthesis"]
            => (completed["analysis"] >= 1
                /\ completed["analysis"] = started["analysis"])
        /\ started'["write"] > started["write"]
            => started'["synthesis"] > started["synthesis"] ]_vars

(* C2: a run that is over without an error has produced exactly one        *)
(* JiraBreakdownResponse, and no run produces more than one.               *)
C2_ExactlyOneResult ==
    /\ Len(results) <= 1
    /\ (RunOver /\ error = None) => Len(results) = 1

(* C3: a request whose jira_id is missing or empty is rejected with the    *)
(* ValueError of start_jira_breakdown before anything else happens: no     *)
(* stage is entered, nothing is delivered to a step, the event stream      *)
(* holds the error alone and there is no result.                           *)
C3_InvalidRequestRejected ==
    RequestInvalid =>
        /\ error = Some("ValueError: jira_id is required")
        /\ emitted = <<Error("ValueError: jira_id is required")>>
        /\ \A s \in Stages : started[s] = 0
        /\ \A s \in Steps : queues[s] = <<>>
        /\ fetching = <<>> /\ analyzing = <<>> /\ synthesizing = <<>>
        /\ results = <<>>

C3_Witness == RequestInvalid /\ IsSome(error)

(* C4: the progress values of a run are non-decreasing in emission order.  *)
C4_ProgressNonDecreasing ==
    \A i, j \in 1..Len(ProgressValues) :
        i < j => ProgressValues[i] <= ProgressValues[j]

(* C5: the last progress value emitted before a result is 100.             *)
C5_ProgressEndsAt100 ==
    \A i \in 1..Len(emitted) :
        IsResult(emitted[i]) =>
            \E j \in 1..(i - 1) :
                /\ IsProgress(emitted[j])
                /\ \A k \in (j + 1)..(i - 1) : ~IsProgress(emitted[k])
                /\ emitted[j][2].progress = 100

(* C6: with N personas of which K fail, the map an analysis stores holds   *)
(* exactly the N-K personas that succeeded and none that failed; the       *)
(* context and every result hold a map stored that way; a failure is not   *)
(* raised: the loop goes on to the next persona, and an analysis that      *)
(* stores its map has attempted every persona.                             *)
C6_AnalysisMapHoldsSuccesses ==
    /\ \A k \in 1..Len(analysisRuns) :
          LET r == analysisRuns[k]
          IN  /\ r.stored = r.succeeded
              /\ r.stored \cap r.failed = {}
              /\ r.succeeded \cup r.failed = 1..agent_personas
              /\ Cardinality(r.stored) = agent_personas - Cardinality(r.failed)
    /\ \A k \in 1..Len(analyzing) :
          LET inv == analyzing[k]
          IN  /\ inv.agent_analyses = inv.succeeded
              /\ inv.completed = Cardinality(inv.agent_analyses)
              /\ inv.succeeded \cup inv.failed = 1..(inv.persona - 1)
    /\ IsSome(ctx.agent_analyses) =>
          /\ analysisRuns # <<>>
          /\ Val(ctx.agent_analyses) = analysisRuns[Len(analysisRuns)].stored
    /\ \A k \in 1..Len(results) :
          \E n \in 1..Len(analysisRuns) :
              results[k].agent_analyses = analysisRuns[n].stored

(* A result reports the map of an analysis in which one persona failed and *)
(* another succeeded.                                                      *)
C6_Witness ==
    \E k \in 1..Len(results), n \in 1..Len(analysisRuns) :
        /\ results[k].agent_analyses = analysisRuns[n].stored
        /\ analysisRuns[n].failed # {}
        /\ analysisRuns[n].succeeded # {}
        /\ Cardinality(analysisRuns[n].stored) = agent_personas - 1

(* C7: once the fetch has succeeded the run does not fail (other than by a *)
(* failing write), and when it is over it has produced a result.           *)
C7_FetchedRunCompletes ==
    completed["fetch"] > 0 =>
        /\ error = None \/ error = Some("UpstreamError: write")
        /\ (RunOver /\ error = None) => results # <<>>

C9_WriteGovernedByFlag ==
    /\ (input # NoInput /\ ~RequestedCreate) => started["write"] = 0
    /\ IF RequestedCreate
       THEN /\ results # <<>> => completed["write"] >= 1
            /\ \A k \in 1..Len(results) :
                  /\ IsSome(results[k].created_jira_items)
                  /\ Len(Val(results[k].created_jira_items))
                        = Len(results[k].epics) + Len(results[k].stories)
       ELSE \A k \in 1..Len(results) : results[k].created_jira_items = None

C9_Witness ==
    /\ RequestedCreate
    /\ \E k \in 1..Len(results) : Len(Val(results[k].created_jira_items)) = 3

(* C10: _create_jira_items returns one identifier per item, the i-th being *)
(* the one generated for the i-th item of epics followed by stories; every *)
(* epic's identifier precedes every story's; the identifiers are pairwise  *)
(* distinct.                                                               *)
C10_IdentifiersInItemOrder ==
    IsSome(wCreated) =>
        LET ids == Val(wCreated)
            log == CreationLog(wEpics, wStories)
            all == wEpics \o wStories
        IN  /\ Len(ids) = Len(all)
            /\ Len(log) = Len(all)
            /\ \A i \in 1..Len(all) : log[i].id = ids[i] /\ log[i].item = all[i]
            /\ \A i, j \in 1..Len(all) :
                  (log[i].item.item_type = "epic" /\ log[j].item.item_type = "story")
                      => i < j
            /\ \A i, j \in 1..Len(ids) : i # j => ids[i] # ids[j]

C10_Witness ==
    /\ IsSome(wCreated)
    /\ Len(wEpics) = 1 /\ Len(wStories) = 2
    /\ Len(Val(wCreated)) = 3
(* C11: every result has a non-empty epic list, also when its analysis map *)
(* is empty.                                                               *)
C11_EpicsNonEmpty ==
    \A k \in 1..Len(results) : Len(results[k].epics) >= 1

(* A result built from an empty analysis map, every persona having failed. *)
C11_Witness ==
    /\ agent_personas >= 1
    /\ \E k \in 1..Len(results) :
          results[k].agent_analyses = {} /\ Len(results[k].epics) >= 1

(* C12: in every result each story whose parent_epic is set names the      *)
(* title of an epic of the same result, every item of the epic list has    *)
(* item_type 'epic' and every item of the story list item_type 'story'.    *)
C12_ReferentialIntegrity ==
    \A r \in {results[k] : k \in 1..Len(results)} :
        /\ \A i \in 1..Len(r.stories) :
              IsSome(r.stories[i].parent_epic) =>
                  \E e \in 1..Len(r.epics) :
                      r.epics[e].title = Val(r.stories[i].parent_epic)
        /\ \A e \in 1..Len(r.epics) : r.epics[e].item_type = "epic"
        /\ \A i \in 1..Len(r.stories) : r.stories[i].item_type = "story"

C12_Witness ==
    \E k \in 1..Len(results) :
        \E i \in 1..Len(results[k].stories) :
            IsSome(results[k].stories[i].parent_epic)

IsBreakdownProgress(e) == IsProgress(e) /\ e[2].type = "BreakdownProgressEvent"

(* The BreakdownProgressEvents of the event stream, in emission order. *)
BreakdownEvents ==
    LET ps == SelectSeq(emitted, IsBreakdownProgress)
    IN  [k \in 1..Len(ps) |-> ps[k][2]]

(* The events sent after a persona succeeded. *)
IsPersonaUpdate(ev) == ev.stage = "agent_analysis" /\ ev.completed_agents >= 1

(* The success sets of all analysis invocations, finished or under way. *)
SuccessSets ==
    [n \in 1..(Len(analysisRuns) + Len(analyzing)) |->
        IF n <= Len(analysisRuns) THEN analysisRuns[n].succeeded
        ELSE analyzing[n - Len(analysisRuns)].succeeded]

(* C14: within a run the progress value 70, the end of the analysis        *)
(* sub-range, is emitted at most once, exactly once when an analysis has   *)
(* completed, and by the event returned after the last persona.            *)
C14_StageEndReachedOnce ==
    LET at70 == {i \in 1..Len(BreakdownEvents) : BreakdownEvents[i].progress = 70}
    IN  /\ Cardinality(at70) <= 1
        /\ completed["analysis"] >= 1 => Cardinality(at70) = 1
        /\ \A i \in at70 : BreakdownEvents[i].stage = "analysis_complete"

(* An entry of the event stream sent after a persona succeeded. *)
IsPersonaUpdateEntry(e) == IsProgress(e) /\ IsPersonaUpdate(e[2])

(* C15: with N > 0 personas the event sent after the k-th success of an    *)
(* analysis carries completed_agents = k and progress 30 + floor(40k/N),   *)
(* a value in 30..70; there is one such event per success and none for a   *)
(* failure.                                                                *)
C15_ProgressProportional ==
    LET updates == SelectSeq(emitted, IsPersonaUpdateEntry)
        sets == SuccessSets
    IN  /\ \A i \in 1..Len(updates) :
              LET ev == updates[i][2]
              IN  /\ ev.total_agents = agent_personas
                  /\ ev.completed_agents <= ev.total_agents
                  /\ ev.progress = 30 + ((40 * ev.completed_agents) \div ev.total_agents)
                  /\ ev.progress >= 30 /\ ev.progress <= 70
        /\ \A k \in 1..agent_personas :
              Cardinality({i \in 1..Len(updates) : updates[i][2].completed_agents = k})
                = Cardinality({n \in 1..Len(sets) : Cardinality(sets[n]) >= k})

(* With two personas, the first failed and the second succeeded: the one   *)
(* event sent reports 1 of 2 at progress 50.                               *)
C15_Witness ==
    /\ agent_personas = 2
    /\ \E n \in 1..Len(analysisRuns) :
          analysisRuns[n].failed = {1} /\ analysisRuns[n].succeeded = {2}
    /\ \E i \in 1..Len(BreakdownEvents) :
          /\ IsPersonaUpdate(BreakdownEvents[i])
          /\ BreakdownEvents[i].completed_agents = 1
          /\ BreakdownEvents[i].progress = 50

(* C16: the result or error of a run is the last event of its stream: no   *)
(* progress event (and no other event) follows it.                         *)
C16_TerminalEventLast ==
    \A i \in 1..Len(emitted) :
        (IsResult(emitted[i]) \/ emitted[i][1] = "error") => i = Len(emitted)

(* C17: processing_time is the time from the receipt of the request to the *)
(* assembly of the response.                                               *)
C17_ProcessingTimeIsEndToEnd ==
    \A k \in 1..Len(results) :
        results[k].processing_time = results[k].timestamp - Val(received)

(* C18: when analyze_with_agents is entered, jira_details and              *)
(* original_event are stored; when synthesize_breakdown is entered,        *)
(* agent_analyses is stored.                                               *)
C18_ReadsFindKeys ==
    [][ /\ started'["analysis"] > started["analysis"]
            => (IsSome(ctx.jira_details) /\ IsSome(ctx.original_event))
        /\ started'["synthesis"] > started["synthesis"]
            => IsSome(ctx.agent_analyses) ]_vars

(* C19: every BreakdownProgressEvent has 0 <= completed_agents <=          *)
(* total_agents; completed_agents never decreases along the run; the       *)
(* completed_agents of an 'analysis_complete' event is the size of a map   *)
(* stored by an analysis.                                                  *)
C19_CompletedAgentsMonotone ==
    /\ \A i \in 1..Len(BreakdownEvents) :
          /\ BreakdownEvents[i].completed_agents >= 0
          /\ BreakdownEvents[i].completed_agents <= BreakdownEvents[i].total_agents
          /\ BreakdownEvents[i].stage = "analysis_complete" =>
                \E n \in 1..Len(analysisRuns) :
                    BreakdownEvents[i].completed_agents
                        = Cardinality(analysisRuns[n].stored)
    /\ \A i, j \in 1..Len(BreakdownEvents) :
          i < j => BreakdownEvents[i].completed_agents
                      <= BreakdownEvents[j].completed_agents

(* C20: with no persona configured the analysis emits exactly the progress *)
(* values 30 and 70, both with completed_agents = total_agents = 0, stores *)
(* the empty map, raises nothing, and the run that is over has a result.   *)
C20_ZeroPersonas ==
    (agent_personas = 0 /\ completed["analysis"] >= 1) =>
        /\ BreakdownEvents =
              <<BreakdownProgressEvent("agent_analysis", 30, 0, 0),
                BreakdownProgressEvent("analysis_complete", 70, 0, 0)>>
        /\ ctx.agent_analyses = Some({})
        /\ error = None \/ error = Some("UpstreamError: write")
        /\ (RunOver /\ error = None) => results # <<>>

(* A run's results carry its own request and its own intermediate state. *)
OwnResults(run, run_input, run_results, run_analyses) ==
    \A k \in 1..Len(run_results) :
        /\ run_results[k].original_jira_id = RequestOf(run).jira_id
        /\ run_results[k].original_jira_id = run_input.jira_id
        /\ run_results[k].original_summary = <<"Feature from ", RequestOf(run).jira_id>>
        /\ \E n \in 1..Len(run_analyses) :
              run_results[k].agent_analyses = run_analyses[n].stored

(* C13: with two runs of the workflow instance interleaved, every result   *)
(* of a run carries that run's issue identifier, the summary fetched for   *)
(* it and an analysis map stored by that run.                              *)
C13_RunsDoNotShareState ==
    /\ OwnResults(active, input, results, analysisRuns)
    /\ OwnResults(3 - active, parked.input, parked.results, parked.analysisRuns)

(* Both runs have produced a result, with different analysis maps. *)
C13_Witness ==
    /\ results # <<>>
    /\ parked.results # <<>>
    /\ results[1].agent_analyses # parked.results[1].agent_analyses
    /\ results[1].original_jira_id # parked.results[1].original_jira_id
====
